---- MODULE Spec2Model ----
(***************************************************************************)
(* A model of CRMCore (src/src/crm_core.py): a contact / deal /            *)
(* interaction store kept in three SQLite tables, and the three reports    *)
(* computed from it (pipeline, forecast, follow-up queue).                 *)
(*                                                                         *)
(* Representation.                                                         *)
(*  - Ids are small naturals standing for the uuid strings; NoId is        *)
(*    Python's None for Interaction.deal_id.                               *)
(*  - A datetime is a natural number of ticks, TicksPerDay ticks a day; a  *)
(*    date is a natural number of days.  Both are STORED as ISO text,      *)
(*    modelled as the tuple of the text's zero-padded fields, and compared *)
(*    by SQLite field by field from the left (TextLess), as strings are.   *)
(*    SQL NULL in such a column is the empty tuple.  Datetimes are naive   *)
(*    UTC, as datetime.utcnow() makes them throughout the module.          *)
(*  - Deal.value is a float: an integer number of thousandths here.        *)
(*    Deal.probability is an integer number of hundredths.  value *        *)
(*    probability is therefore in units of 10^-5.  round(x, 2) returns     *)
(*    hundredths; on a decimal tie the float's binary expansion decides    *)
(*    the direction, so Round2 gives both neighbours there.                *)
(*  - The clock does not advance inside one call.                          *)
(*  - A str field (name, email, phone, ...) is an opaque TLA+ string; a     *)
(*    tag is a sequence of one-character strings, so that joining tags     *)
(*    with "," and splitting the text again is computed, not assumed.      *)
(***************************************************************************)
EXTENDS Integers, Sequences, FiniteSets, TLC

\* ------------------------------------------------------------ bounds
NumContacts == 2
NumDeals == 2
MaxInteractions == 1
MaxClock == 1
TicksPerDay == 2
DaysPerMonth == 30
StartDay == 9

ContactIds == 1..NumContacts
DealIds == 1..NumDeals
NoId == 0
NULL == <<>>
\* Python's None where a str is expected.
PyNone == "<None>"

\* ------------------------------------------------------------ constants
DEAL_STAGES == <<"lead", "qualified", "proposal", "negotiation", "closed_won", "closed_lost">>

STAGE_PROBS == [lead |-> 5, qualified |-> 20, proposal |-> 40,
                negotiation |-> 70, closed_won |-> 100, closed_lost |-> 0]

DaysPerWeek == 7

StageSet == {DEAL_STAGES[i] : i \in 1..Len(DEAL_STAGES)}

\* ------------------------------------------------------------ text
\* date.isoformat(): the fields of YYYY-MM-DD, most significant first (a
\* calendar of equal months stands for the Gregorian one).
DateIso(d) == <<d \div DaysPerMonth, d % DaysPerMonth>>

\* date.fromisoformat()
DateFromIso(s) == s[1] * DaysPerMonth + s[2]

\* datetime.isoformat(): the date's fields, then the time of day.
DateTimeIso(t) == DateIso(t \div TicksPerDay) \o <<t % TicksPerDay>>

\* datetime.fromisoformat()
DateTimeFromIso(s) == DateFromIso(<<s[1], s[2]>>) * TicksPerDay + s[3]

\* SQLite's comparison of two TEXT values: the first differing position
\* decides, and a proper prefix is smaller.
RECURSIVE TextLess(_, _)
TextLess(a, b) ==
    IF b = <<>> THEN FALSE
    ELSE IF a = <<>> THEN TRUE
    ELSE IF Head(a) # Head(b) THEN Head(a) < Head(b)
    ELSE TextLess(Tail(a), Tail(b))

TextLeq(a, b) == a = b \/ TextLess(a, b)

\* ",".join(tags): a tag is a sequence of characters.
RECURSIVE JoinTags(_)
JoinTags(tags) ==
    IF tags = <<>> THEN <<>>
    ELSE IF Len(tags) = 1 THEN tags[1]
    ELSE tags[1] \o <<",">> \o JoinTags(Tail(tags))

\* ------------------------------------------------------------ state
VARIABLES contacts, deals, interactions, now, result, inserted

vars == <<contacts, deals, interactions, now, result, inserted>>
store == <<contacts, deals, interactions>>

\* The value a call returned, or the exception it raised.
Returned(op, v) == [op |-> op, raised |-> "", message |-> "", value |-> v]
Raised(op, exc, msg) == [op |-> op, raised |-> exc, message |-> msg, value |-> <<>>]

Init ==
    /\ contacts = <<>>
    /\ deals = <<>>
    /\ interactions = <<>>
    /\ now = StartDay * TicksPerDay
    /\ result = Returned("__init__", <<>>)
    /\ inserted = <<>>

\* The clock moves between calls, by `ticks` and not beyond `limit`.
Advance(ticks, limit) ==
    /\ now + ticks <= limit
    /\ now' = now + ticks
    /\ result' = Returned("tick", <<>>)
    /\ UNCHANGED <<store, inserted>>

Tick == Advance(1, StartDay * TicksPerDay + MaxClock)

\* ------------------------------------------------------------ contacts
\* History: `inserted` holds, for each contact add_contact accepted that no
\* update_contact or log_interaction has written to since, the Contact object
\* the caller passed.  No operation reads it.
Recorded(c) ==
    [k \in DOMAIN inserted \cup {c.id} |-> IF k = c.id THEN c ELSE inserted[k]]

Forgotten(id) == [k \in DOMAIN inserted \ {id} |-> inserted[k]]

\* The contacts row add_contact writes for a Contact object.
ContactRow(c) ==
    [name |-> c.name, email |-> c.email, phone |-> c.phone,
     company |-> c.company, tags |-> JoinTags(c.tags), notes |-> c.notes,
     created_at |-> DateTimeIso(c.created_at),
     last_contact |-> IF c.last_contact # NULL
                      THEN DateTimeIso(c.last_contact[1]) ELSE NULL]

\* A variant without the UNIQUE constraint.
EmailNotChecked(email, self) == TRUE

\* contacts.email is UNIQUE: no row other than `self` holds `email`.
EmailFree(email, self) ==
    \A k \in DOMAIN contacts : k # self => contacts[k].email # email

AddContact(c) ==
    /\ now' = now
    /\ UNCHANGED <<deals, interactions>>
    /\ IF c.name = PyNone \/ c.email = PyNone
       THEN /\ result' = Raised("add_contact", "IntegrityError", "NOT NULL")
            /\ contacts' = contacts
       ELSE IF ~EmailFree(c.email, NoId)
       THEN /\ result' = Raised("add_contact", "IntegrityError", "UNIQUE contacts.email")
            /\ contacts' = contacts
       ELSE IF c.id \in DOMAIN contacts
       THEN /\ result' = Raised("add_contact", "IntegrityError", "UNIQUE contacts.id")
            /\ contacts' = contacts
       ELSE /\ contacts' = [k \in DOMAIN contacts \cup {c.id} |->
                               IF k = c.id THEN ContactRow(c) ELSE contacts[k]]
            /\ result' = Returned("add_contact", <<c.id>>)
    /\ inserted' = IF result'.raised = "" THEN Recorded(c) ELSE inserted

ContactColumns == {"name", "email", "phone", "company", "tags", "notes",
                   "created_at", "last_contact"}

\* update_contact's whitelist.
allowed == {"name", "email", "phone", "company", "tags", "notes"}

\* update_contact's `updates`: the whitelisted keyword arguments, a tags list
\* comma-joined.  A tags argument is <<"list", tags>> or <<"str", text>>.
Updates(kwargs) ==
    [k \in DOMAIN kwargs \cap allowed |->
        IF k = "tags" THEN (IF kwargs[k][1] = "list"
                            THEN JoinTags(kwargs[k][2]) ELSE kwargs[k][2])
        ELSE kwargs[k]]

\* UPDATE contacts SET k=v, ... on one row.
UpdatedRow(row, updates) ==
    [col \in ContactColumns |->
        IF col \in DOMAIN updates THEN updates[col] ELSE row[col]]

UpdateContact(contact_id, kwargs) ==
    LET updates == Updates(kwargs) IN
    /\ now' = now
    /\ UNCHANGED <<deals, interactions>>
    /\ IF DOMAIN updates = {}
       THEN /\ result' = Returned("update_contact", <<FALSE>>)
            /\ contacts' = contacts
       ELSE IF contact_id \notin DOMAIN contacts
       THEN /\ result' = Returned("update_contact", <<FALSE>>)
            /\ contacts' = contacts
       ELSE IF \/ ("name" \in DOMAIN updates /\ updates["name"] = PyNone)
               \/ ("email" \in DOMAIN updates /\ updates["email"] = PyNone)
       THEN /\ result' = Raised("update_contact", "IntegrityError", "NOT NULL")
            /\ contacts' = contacts
       ELSE IF "email" \in DOMAIN updates /\ ~EmailFree(updates["email"], contact_id)
       THEN /\ result' = Raised("update_contact", "IntegrityError", "UNIQUE contacts.email")
            /\ contacts' = contacts
       ELSE /\ contacts' = [contacts EXCEPT
                               ![contact_id] = UpdatedRow(@, updates)]
            /\ result' = Returned("update_contact", <<TRUE>>)
    /\ inserted' = IF result'.value = <<TRUE>> THEN Forgotten(contact_id) ELSE inserted

\* text.split(","): the pieces between the commas, one more than there are
\* commas.
RECURSIVE Split(_)
Split(text) ==
    IF text = <<>> THEN << <<>> >>
    ELSE IF Head(text) = "," THEN << <<>> >> \o Split(Tail(text))
    ELSE LET rest == Split(Tail(text))
         IN  << <<Head(text)>> \o rest[1] >> \o Tail(rest)

\* [t for t in (row["tags"] or "").split(",") if t]; NULL and '' are both the
\* empty text here.
SplitTags(text) == SelectSeq(Split(text), LAMBDA t : t # <<>>)

\* _row_to_contact: the Contact object built from a contacts row.
RowToContact(id, row) ==
    [id |-> id, name |-> row.name, email |-> row.email,
     phone |-> IF row.phone = PyNone THEN "" ELSE row.phone,
     company |-> IF row.company = PyNone THEN "" ELSE row.company,
     tags |-> SplitTags(row.tags),
     notes |-> IF row.notes = PyNone THEN "" ELSE row.notes,
     created_at |-> DateTimeFromIso(row.created_at),
     last_contact |-> IF row.last_contact # NULL
                      THEN <<DateTimeFromIso(row.last_contact)>> ELSE NULL]

\* A lookup returns <<contact>>, or <<>> for None.
GetContact(contact_id) ==
    /\ result' = Returned("get_contact",
                   IF contact_id \in DOMAIN contacts
                   THEN <<RowToContact(contact_id, contacts[contact_id])>>
                   ELSE <<>>)
    /\ UNCHANGED <<store, now, inserted>>

\* SELECT * FROM contacts WHERE email=? ... fetchone(): the first matching
\* row in rowid order.
FindContactByEmail(email) ==
    LET found == {k \in DOMAIN contacts : contacts[k].email = email} IN
    /\ result' = Returned("find_contact_by_email",
                   IF found # {}
                   THEN LET k == CHOOSE k \in found : \A j \in found : k <= j
                        IN  <<RowToContact(k, contacts[k])>>
                   ELSE <<>>)
    /\ UNCHANGED <<store, now, inserted>>

\* ------------------------------------------------------------ interactions
\* The interactions row log_interaction writes; the id is a fresh uuid (the
\* row's position here) and occurred_at is utcnow().
InteractionRow(contact_id, type, notes, deal_id, outcome) ==
    [contact_id |-> contact_id, deal_id |-> deal_id, type |-> type,
     notes |-> notes, outcome |-> outcome, occurred_at |-> DateTimeIso(now)]

\* UPDATE contacts SET last_contact=? WHERE id=?
TouchContact(contact_id, stamp) ==
    [k \in DOMAIN contacts |->
        IF k = contact_id THEN [contacts[k] EXCEPT !.last_contact = stamp]
        ELSE contacts[k]]

\* The schema declares REFERENCES contacts(id) and deals(id), but the
\* connection never issues PRAGMA foreign_keys=ON and SQLite leaves foreign
\* keys unenforced without it: only NOT NULL can reject the row.
LogInteraction(contact_id, type, notes, deal_id, outcome) ==
    /\ Len(interactions) < MaxInteractions
    /\ now' = now
    /\ deals' = deals
    /\ IF contact_id = NoId \/ type = PyNone \/ notes = PyNone
       THEN /\ result' = Raised("log_interaction", "IntegrityError", "NOT NULL")
            /\ UNCHANGED <<contacts, interactions>>
       ELSE /\ interactions' = Append(interactions,
                  InteractionRow(contact_id, type, notes, deal_id, outcome))
            /\ contacts' = TouchContact(contact_id, DateTimeIso(now))
            /\ result' = Returned("log_interaction",
                                  <<Len(interactions) + 1, now>>)
    /\ inserted' = IF result'.raised = "" THEN Forgotten(contact_id) ELSE inserted

\* ------------------------------------------------------------ deals
\* The deals row add_deal writes for a Deal object.
DealRow(d) ==
    [contact_id |-> d.contact_id, title |-> d.title, value |-> d.value,
     stage |-> d.stage, probability |-> d.probability,
     expected_close |-> IF d.expected_close # NULL
                        THEN DateIso(d.expected_close[1]) ELSE NULL,
     notes |-> d.notes, created_at |-> DateTimeIso(d.created_at)]

\* No check of deal.stage against DEAL_STAGES, and no enforced foreign key.
AddDeal(d) ==
    /\ now' = now
    /\ UNCHANGED <<contacts, interactions, inserted>>
    /\ IF d.contact_id = NoId \/ d.stage = PyNone
       THEN /\ result' = Raised("add_deal", "IntegrityError", "NOT NULL")
            /\ deals' = deals
       ELSE IF d.id \in DOMAIN deals
       THEN /\ result' = Raised("add_deal", "IntegrityError", "UNIQUE deals.id")
            /\ deals' = deals
       ELSE /\ deals' = [k \in DOMAIN deals \cup {d.id} |->
                            IF k = d.id THEN DealRow(d) ELSE deals[k]]
            /\ result' = Returned("add_deal", <<d.id>>)

\* A variant that forgets the probability column.
StagedRowStageOnly(row, stage, probability) ==
    [row EXCEPT !.stage = stage]

\* UPDATE deals SET stage=?, probability=? WHERE id=?
StagedRow(row, stage, probability) ==
    [row EXCEPT !.stage = stage, !.probability = probability]

\* A variant that validates the stage after the UPDATE.
AdvanceDealStageWriteFirst(deal_id, stage) ==
    /\ now' = now
    /\ UNCHANGED <<contacts, interactions, inserted>>
    /\ deals' = [k \in DOMAIN deals |->
                    IF k = deal_id
                    THEN StagedRow(deals[k], stage,
                                   IF stage \in StageSet THEN STAGE_PROBS[stage]
                                   ELSE deals[k].probability)
                    ELSE deals[k]]
    /\ result' = IF stage \notin StageSet
                 THEN Raised("advance_deal_stage", "ValueError", "Unknown stage")
                 ELSE Returned("advance_deal_stage", <<deal_id \in DOMAIN deals>>)

AdvanceDealStage(deal_id, stage) ==
    /\ now' = now
    /\ UNCHANGED <<contacts, interactions, inserted>>
    /\ IF stage \notin StageSet
       THEN /\ result' = Raised("advance_deal_stage", "ValueError", "Unknown stage")
            /\ deals' = deals
       ELSE /\ deals' = [k \in DOMAIN deals |->
                            IF k = deal_id
                            THEN StagedRow(deals[k], stage, STAGE_PROBS[stage])
                            ELSE deals[k]]
            /\ result' = Returned("advance_deal_stage",
                                  <<deal_id \in DOMAIN deals>>)

\* ------------------------------------------------------------ numbers
\* Sum of f over the finite set S.
RECURSIVE Sum(_, _)
Sum(f, S) ==
    IF S = {} THEN 0
    ELSE LET x == CHOOSE x \in S : TRUE IN f[x] + Sum(f, S \ {x})

\* round(x, 2) of an amount x given in units of 1/(100*unit): the nearest
\* hundredth.  On a decimal tie the float's binary expansion decides; `up`
\* is the set of <<unit, x>> it puts above the midpoint.
Round2(x, unit, up) ==
    LET q == x \div unit
        r == x % unit
    IN  IF 2 * r > unit \/ (2 * r = unit /\ <<unit, x>> \in up) THEN q + 1 ELSE q

IsTie(x, unit) == 2 * (x % unit) = unit

\* Deal.value is counted in 1/(100*ValueUnit); value * probability, with the
\* probability in hundredths, in 1/(100*WeightedUnit).
ValueUnit == 10
WeightedUnit == ValueUnit * 100

\* A variant that sums every stage.
all_stages == {DEAL_STAGES[i] : i \in 1..Len(DEAL_STAGES)}

\* Deal.is_open(), and the SQL stage NOT IN ('closed_won','closed_lost')
IsOpen(stage) == stage \notin {"closed_won", "closed_lost"}

\* Deal.weighted_value(), and the SQL value * probability
Weighted(row) == row.value * row.probability

\* The elements of S in ascending order.
RECURSIVE Ascending(_)
Ascending(S) ==
    IF S = {} THEN <<>>
    ELSE LET m == CHOOSE m \in S : \A y \in S : m <= y
         IN  <<m>> \o Ascending(S \ {m})

\* ------------------------------------------------------------ pipeline
\* SELECT stage, COUNT(*), SUM(value), SUM(value*probability) ... GROUP BY stage
StageGroup(stage) == {k \in DOMAIN deals : deals[k].stage = stage}
StageTotal(stage) == Sum([k \in DOMAIN deals |-> deals[k].value], StageGroup(stage))
StageWeighted(stage) == Sum([k \in DOMAIN deals |-> Weighted(deals[k])], StageGroup(stage))

\* The keys of `stages`: the six of DEAL_STAGES, then every stage a row holds.
PipelineKeys == StageSet \cup {deals[k].stage : k \in DOMAIN deals}

PipelineStages(up) ==
    [s \in PipelineKeys |->
        IF StageGroup(s) = {}
        THEN [count |-> 0, total_value |-> 0, weighted_value |-> 0]
        ELSE [count |-> Cardinality(StageGroup(s)),
              total_value |-> Round2(StageTotal(s), ValueUnit, up),
              weighted_value |-> Round2(StageWeighted(s), WeightedUnit, up)]]

open_stages == {s \in StageSet : IsOpen(s)}

\* The sums of two-decimal numbers round to themselves.
Pipeline(up) ==
    LET stages == PipelineStages(up) IN
    [stages |-> stages,
     pipeline_value |-> Sum([s \in open_stages |-> stages[s].total_value], open_stages),
     pipeline_weighted |-> Sum([s \in open_stages |-> stages[s].weighted_value], open_stages)]

\* The amounts get_deal_pipeline rounds that lie on a tie.
PipelineTies ==
    {<<ValueUnit, StageTotal(s)>> : s \in {t \in PipelineKeys : IsTie(StageTotal(t), ValueUnit)}}
    \cup {<<WeightedUnit, StageWeighted(s)>> :
             s \in {t \in PipelineKeys : IsTie(StageWeighted(t), WeightedUnit)}}

GetDealPipeline ==
    /\ \E up \in SUBSET PipelineTies :
          result' = Returned("get_deal_pipeline", Pipeline(up))
    /\ UNCHANGED <<contacts, deals, interactions, now, inserted>>

\* ------------------------------------------------------------ forecast
\* date.today(), in the zone of the clock.
Today == now \div TicksPerDay

\* A variant whose horizon is exclusive.
ForecastRowsBeforeHorizon(days) ==
    {k \in DOMAIN deals :
        /\ IsOpen(deals[k].stage)
        /\ deals[k].expected_close # NULL
        /\ TextLess(deals[k].expected_close, DateIso(Today + days))}

\* SELECT * FROM deals WHERE stage NOT IN (...) AND expected_close IS NOT NULL
\* AND expected_close <= horizon: a comparison of ISO texts.
ForecastRows(days) ==
    {k \in DOMAIN deals :
        /\ IsOpen(deals[k].stage)
        /\ deals[k].expected_close # NULL
        /\ TextLeq(deals[k].expected_close, DateIso(Today + days))}

\* A variant whose division truncates toward zero.
WeekNumTruncating(row) ==
    LET diff == DateFromIso(row.expected_close) - Today
    IN  (IF diff >= 0 THEN diff \div DaysPerWeek ELSE -((-diff) \div DaysPerWeek)) + 1

\* week_num = ((close_date - today).days // 7) + 1
WeekNum(row) == ((DateFromIso(row.expected_close) - Today) \div DaysPerWeek) + 1

\* weekly[week_num] += weighted
Weekly(rows) ==
    [w \in {WeekNum(deals[k]) : k \in rows} |->
        Sum([k \in rows |-> Weighted(deals[k])],
            {k \in rows : WeekNum(deals[k]) = w})]

\* One entry of deals_snapshot.
Snapshot(row, up) ==
    [title |-> row.title, value |-> row.value, probability |-> row.probability,
     weighted |-> Round2(Weighted(row), WeightedUnit, up),
     expected_close |-> DateIso(DateFromIso(row.expected_close))]

\* Rows come in rowid order, which is the order of insertion, and sorted()
\* is stable: by expected_close, then by row.
SnapshotBefore(a, b) ==
    \/ TextLess(deals[a].expected_close, deals[b].expected_close)
    \/ (deals[a].expected_close = deals[b].expected_close /\ a < b)

Forecast(days, up) ==
    LET rows == ForecastRows(days)
        weekly == Weekly(rows)
        weeks == Ascending(DOMAIN weekly)
        order == SortSeq(Ascending(rows), SnapshotBefore)
    IN  [forecast_days |-> days,
         total_expected |->
            Round2(Sum([k \in rows |-> Weighted(deals[k])], rows), WeightedUnit, up),
         deal_count |-> Len(order),
         weekly_breakdown |->
            [i \in 1..Len(weeks) |->
                <<weeks[i], Round2(weekly[weeks[i]], WeightedUnit, up)>>],
         deals |-> [i \in 1..Len(order) |-> Snapshot(deals[order[i]], up)]]

\* The amounts forecast_revenue rounds that lie on a tie.
ForecastTies(days) ==
    LET rows == ForecastRows(days)
        weekly == Weekly(rows)
        amounts == {Weighted(deals[k]) : k \in rows}
                   \cup {weekly[w] : w \in DOMAIN weekly}
                   \cup {Sum([k \in rows |-> Weighted(deals[k])], rows)}
    IN  {<<WeightedUnit, x>> : x \in {y \in amounts : IsTie(y, WeightedUnit)}}

ForecastRevenue(days) ==
    /\ \E up \in SUBSET ForecastTies(days) :
          result' = Returned("forecast_revenue", Forecast(days, up))
    /\ UNCHANGED <<contacts, deals, interactions, now, inserted>>

\* ------------------------------------------------------------ follow-up
\* A variant that joins the closed deals too.
FollowUpJoinAnyStage(days_overdue) ==
    LET cutoff == now - days_overdue * TicksPerDay IN
    {p \in (DOMAIN contacts) \X (DOMAIN deals) :
        /\ deals[p[2]].contact_id = p[1]
        /\ \/ contacts[p[1]].last_contact = NULL
           \/ TextLess(contacts[p[1]].last_contact, DateTimeIso(cutoff))}

\* FROM contacts c JOIN deals d ON d.contact_id = c.id WHERE d.stage NOT IN
\* (...) AND (c.last_contact IS NULL OR c.last_contact < cutoff): the joined
\* rows, the timestamps compared as ISO texts.
FollowUpJoin(days_overdue) ==
    LET cutoff == now - days_overdue * TicksPerDay IN
    {p \in (DOMAIN contacts) \X (DOMAIN deals) :
        /\ deals[p[2]].contact_id = p[1]
        /\ IsOpen(deals[p[2]].stage)
        /\ \/ contacts[p[1]].last_contact = NULL
           \/ TextLess(contacts[p[1]].last_contact, DateTimeIso(cutoff))}

\* GROUP BY c.id: the contacts of the joined rows.
FollowUpGroups(join) == {p[1] : p \in join}

\* SUM(d.value * d.probability) of one group.
GroupWeighted(join, c) ==
    Sum([p \in join |-> Weighted(deals[p[2]])], {p \in join : p[1] = c})

\* One entry of the queue.
FollowUpEntry(join, c, up) ==
    [contact_id |-> c, name |-> contacts[c].name, email |-> contacts[c].email,
     company |-> contacts[c].company,
     days_since_contact |->
        IF contacts[c].last_contact # NULL
        THEN <<(now - DateTimeFromIso(contacts[c].last_contact)) \div TicksPerDay>>
        ELSE NULL,
     open_deal_weighted_value |-> Round2(GroupWeighted(join, c), WeightedUnit, up)]

FollowUpQueue(days_overdue, up) ==
    LET join == FollowUpJoin(days_overdue)
        Before(a, b) == \/ GroupWeighted(join, a) > GroupWeighted(join, b)
                        \/ (GroupWeighted(join, a) = GroupWeighted(join, b) /\ a < b)
        order == SortSeq(Ascending(FollowUpGroups(join)), Before)
    IN  [i \in 1..Len(order) |-> FollowUpEntry(join, order[i], up)]

FollowUpTies(days_overdue) ==
    LET join == FollowUpJoin(days_overdue) IN
    {<<WeightedUnit, GroupWeighted(join, c)>> :
        c \in {g \in FollowUpGroups(join) :
                  IsTie(GroupWeighted(join, g), WeightedUnit)}}

GetFollowUpQueue(days_overdue) ==
    /\ \E up \in SUBSET FollowUpTies(days_overdue) :
          result' = Returned("get_follow_up_queue", FollowUpQueue(days_overdue, up))
    /\ UNCHANGED <<contacts, deals, interactions, now, inserted>>

\* ------------------------------------------------------------ inputs
\* Ids are opaque uuid strings: the model numbers them in the order of their
\* insertion.  A caller may pass an id again, or refer to one not inserted.
FreshId(table, ids) == {k \in ids : k = Cardinality(DOMAIN table) + 1}

Start == StartDay * TicksPerDay
Future == Start + MaxClock + 1

Contact(id, name, email, last_contact) ==
    [id |-> id, name |-> name, email |-> email, phone |-> "", company |-> "",
     tags |-> <<>>, notes |-> "", created_at |-> Start,
     last_contact |-> last_contact]

Deal(id, contact_id, value, stage, probability, expected_close) ==
    [id |-> id, contact_id |-> contact_id, title |-> "Big Deal",
     value |-> value, stage |-> stage, probability |-> probability,
     expected_close |-> expected_close, notes |-> "", created_at |-> Start]

Emails == {"a@x", "b@x"}

\* ------------------------------------------------------------ the store
\* Every operation, each on a few inputs.
AddContactStep ==
    \E id \in FreshId(contacts, ContactIds) \cup DOMAIN contacts :
    \E email \in Emails :
    \E lc \in {NULL, <<Future>>} :
        AddContact(Contact(id, "Alice", email, lc))

\* Keyword arguments of update_contact.
Kwargs ==
    << [email |-> "b@x"],
       [email |-> "a@x", last_contact |-> DateTimeIso(Future)],
       [last_contact |-> DateTimeIso(Future), id |-> 1] >>

UpdateContactStep ==
    \E id \in ContactIds : \E i \in 1..Len(Kwargs) : UpdateContact(id, Kwargs[i])

LogInteractionStep ==
    \E p \in (ContactIds \X {NoId}) \cup {<<1, 1>>} :
        LogInteraction(p[1], "call", "Discussed pricing", p[2], "")

AddDealStep ==
    \E c \in ContactIds :
        AddDeal(Deal(1, c, 2000000, "lead", 10, NULL))

AdvanceDealStageStep ==
    \E stage \in {"closed_won", "bogus"} : AdvanceDealStage(1, stage)

Next ==
    \/ Tick
    \/ AddContactStep
    \/ UpdateContactStep
    \/ LogInteractionStep
    \/ AddDealStep
    \/ AdvanceDealStageStep
    \/ GetDealPipeline
    \/ ForecastRevenue(DaysPerWeek)
    \/ GetFollowUpQueue(1)

Spec == Init /\ [][Next]_vars
\* C2: every stored deal and every stored interaction references an existing
\* contact (add_deal and log_interaction having failed on any other
\* contact_id).
C2_ReferencesExist ==
    /\ \A d \in DOMAIN deals : deals[d].contact_id \in DOMAIN contacts
    /\ \A i \in 1..Len(interactions) :
          interactions[i].contact_id \in DOMAIN contacts

\* C5: the last_contact of an existing contact for which an interaction has
\* been logged is the occurrence time of the most recently logged one.
C5_LastContactIsLatestInteraction ==
    \A c \in DOMAIN contacts :
        LET mine == {i \in 1..Len(interactions) : interactions[i].contact_id = c}
        IN  mine # {} =>
              LET latest == CHOOSE i \in mine : \A j \in mine : j <= i
              IN  contacts[c].last_contact = interactions[latest].occurred_at

\* ------------------------------------------------------------ deals
\* The deal operations and the pipeline report, on deals of several values,
\* stages and probabilities.
DealValues == {80, 2000000}

DealsAddContact == AddContact(Contact(1, "Alice", "a@x", NULL))

DealsAddDeal ==
    \E id \in FreshId(deals, DealIds) \cup DOMAIN deals :
    \E value \in DealValues :
    \E stage \in {"lead", "bogus"} :
        AddDeal(Deal(id, 1, value, stage, 33, NULL))

DealsAdvanceDealStage ==
    \E d \in DealIds : \E stage \in StageSet \cup {"bogus"} :
        AdvanceDealStage(d, stage)

DealsNext ==
    \/ DealsAddContact
    \/ DealsAddDeal
    \/ DealsAdvanceDealStage
    \/ GetDealPipeline

SpecDeals == Init /\ [][DealsNext]_vars

\* C1: the stages of get_deal_pipeline() are exactly the six canonical
\* stages, and a stage with no stored deal has count 0, total_value 0 and
\* weighted_value 0.
C1_SixStageKeys ==
    result.op = "get_deal_pipeline" =>
        /\ DOMAIN result.value.stages =
              {"lead", "qualified", "proposal", "negotiation",
               "closed_won", "closed_lost"}
        /\ \A s \in DOMAIN result.value.stages :
              (\A d \in DOMAIN deals : deals[d].stage # s) =>
                  result.value.stages[s] =
                      [count |-> 0, total_value |-> 0, weighted_value |-> 0]

\* C3: advance_deal_stage with a stage outside the six canonical stages
\* raises ValueError and leaves every contact, deal and interaction as it was.
C3_UnknownStageWritesNothing ==
    [][\A d \in DealIds : \A stage \in {"bogus"} :
          AdvanceDealStage(d, stage) =>
              /\ result'.op = "advance_deal_stage"
              /\ result'.raised = "ValueError"
              /\ contacts' = contacts
              /\ deals' = deals
              /\ interactions' = interactions]_vars

C3_Witness ==
    /\ result.op = "advance_deal_stage"
    /\ result.raised = "ValueError"
    /\ DOMAIN contacts # {}
    /\ Cardinality(DOMAIN deals) = 2

\* The table of the claim, in hundredths.
ClaimedProbability(stage) ==
    CASE stage = "lead" -> 5
      [] stage = "qualified" -> 20
      [] stage = "proposal" -> 40
      [] stage = "negotiation" -> 70
      [] stage = "closed_won" -> 100
      [] stage = "closed_lost" -> 0

\* C4: a successful advance_deal_stage(d, s) leaves d with stage s and the
\* table's probability for s, whatever they were, changes no other field of
\* d, and changes no other deal.
C4_AdvanceSetsStageAndProbability ==
    [][\A d \in DOMAIN deals : \A s \in StageSet :
          AdvanceDealStage(d, s) =>
              /\ result'.value = <<TRUE>>
              /\ DOMAIN deals' = DOMAIN deals
              /\ deals'[d].stage = s
              /\ deals'[d].probability = ClaimedProbability(s)
              /\ \A f \in DOMAIN deals[d] \ {"stage", "probability"} :
                    deals'[d][f] = deals[d][f]
              /\ \A e \in DOMAIN deals \ {d} : deals'[e] = deals[e]]_vars

C4_Witness ==
    /\ result.op = "advance_deal_stage"
    /\ result.value = <<TRUE>>
    /\ \E d, e \in DOMAIN deals :
          /\ deals[d].stage = "qualified" /\ deals[d].probability = 20
          /\ deals[e].stage = "bogus" /\ deals[e].probability = 33
\* ------------------------------------------------------------ contacts
\* add_contact and update_contact on as many e-mail addresses as contacts.
EmailNames == <<"a@x", "b@x", "c@x", "d@x">>
ContactEmails == {EmailNames[i] : i \in 1..NumContacts}

ContactsAddContact ==
    \E id \in FreshId(contacts, ContactIds) \cup DOMAIN contacts :
    \E email \in ContactEmails \cup {PyNone} :
        AddContact(Contact(id, "Alice", email, NULL))

ContactsKwargs ==
    << [email |-> PyNone],
       [name |-> "Bob", last_contact |-> DateTimeIso(Future)],
       [phone |-> "555-9999", company |-> "NewCorp"],
       [tags |-> <<"list", << <<"v">>, <<"i", "p">> >> >>],
       [id |-> 1] >>

ContactsUpdateEmail ==
    \E id \in ContactIds : \E email \in ContactEmails :
        UpdateContact(id, [email |-> email])

ContactsUpdateContact ==
    \E id \in ContactIds : \E i \in 1..Len(ContactsKwargs) :
        UpdateContact(id, ContactsKwargs[i])

ContactsNext ==
    \/ ContactsAddContact
    \/ ContactsUpdateEmail
    \/ ContactsUpdateContact

SpecContacts == Init /\ [][ContactsNext]_vars

\* C6: no two stored contacts have the same email; an add_contact whose
\* email a stored contact holds, and an update_contact that would give a
\* contact the email of another, fail and leave the contacts table as it was.
C6_EmailUnique ==
    /\ [](\A a, b \in DOMAIN contacts :
            a # b => contacts[a].email # contacts[b].email)
    /\ [][\A id \in ContactIds : \A email \in ContactEmails :
            /\ (/\ AddContact(Contact(id, "Alice", email, NULL))
                /\ \E k \in DOMAIN contacts : contacts[k].email = email)
               => (result'.raised = "IntegrityError" /\ contacts' = contacts)
            /\ (/\ UpdateContact(id, [email |-> email])
                /\ id \in DOMAIN contacts
                /\ \E k \in DOMAIN contacts \ {id} : contacts[k].email = email)
               => (result'.raised = "IntegrityError" /\ contacts' = contacts)]_vars

C6_Witness ==
    /\ result.op = "update_contact"
    /\ result.message = "UNIQUE contacts.email"
    /\ Cardinality(DOMAIN contacts) = 2
    /\ \E a \in DOMAIN contacts : contacts[a].name = "Bob"
\* h hundredths is a nearest hundredth of the amount x, given in units of
\* 1/(100*unit).
Nearest(h, x, unit) == 2 * (h * unit - x) <= unit /\ 2 * (x - h * unit) <= unit

OpenFour == {"lead", "qualified", "proposal", "negotiation"}

DealsIn(stages) == {d \in DOMAIN deals : deals[d].stage \in stages}
ValueOf == [d \in DOMAIN deals |-> deals[d].value]
WeightedOf == [d \in DOMAIN deals |-> deals[d].value * deals[d].probability]

\* C8 as stated: pipeline_value is the sum of value and pipeline_weighted the
\* sum of value x probability over the stored deals whose stage is lead,
\* qualified, proposal or negotiation.
C8_PipelineTotalsExact ==
    result.op = "get_deal_pipeline" =>
        /\ result.value.pipeline_value * ValueUnit = Sum(ValueOf, DealsIn(OpenFour))
        /\ result.value.pipeline_weighted * WeightedUnit =
              Sum(WeightedOf, DealsIn(OpenFour))

\* C8 as amended: pipeline_value is the sum over the four open stages of the
\* stage's total_value and pipeline_weighted the sum of their weighted_value,
\* a stage's total_value and weighted_value being the sums of value and of
\* value x probability over the stored deals of that stage, each rounded to
\* two decimals; closed deals contribute to neither.
C8_PipelineTotalsRounded ==
    result.op = "get_deal_pipeline" =>
        LET stages == result.value.stages IN
        /\ result.value.pipeline_value =
              Sum([s \in OpenFour |-> stages[s].total_value], OpenFour)
        /\ result.value.pipeline_weighted =
              Sum([s \in OpenFour |-> stages[s].weighted_value], OpenFour)
        /\ \A s \in OpenFour :
              /\ Nearest(stages[s].total_value, Sum(ValueOf, DealsIn({s})), ValueUnit)
              /\ Nearest(stages[s].weighted_value, Sum(WeightedOf, DealsIn({s})),
                         WeightedUnit)

C8_Witness ==
    /\ result.op = "get_deal_pipeline"
    /\ \E d \in DealsIn({"closed_won"}) : deals[d].value > 0
    /\ Cardinality(DealsIn(OpenFour)) = 1
    /\ result.value.pipeline_weighted * WeightedUnit # Sum(WeightedOf, DealsIn(OpenFour))
\* ------------------------------------------------------------ forecast
\* Deals with expected-close dates around today, over a few days.
CloseOffsets == {-8, -1, 0, 6, 7}
CloseInputs == {NULL} \cup {<<StartDay + k>> : k \in CloseOffsets}

ForecastAddDeal ==
    \E id \in FreshId(deals, DealIds) :
    \E vsp \in {<<80, "lead", 5>>, <<100, "lead", 5>>, <<80, "closed_won", 100>>} :
    \E close \in CloseInputs :
        AddDeal(Deal(id, 1, vsp[1], vsp[2], vsp[3], close))

ForecastAdvanceDealStage ==
    \E d \in DealIds : AdvanceDealStage(d, "closed_lost")

ForecastNextDay == Advance(TicksPerDay, (StartDay + MaxClock) * TicksPerDay)

ForecastDays == {0, DaysPerWeek}

ForecastStep == \E days \in ForecastDays : ForecastRevenue(days)

ForecastNext ==
    \/ ForecastAddDeal
    \/ ForecastAdvanceDealStage
    \/ ForecastNextDay
    \/ ForecastStep

SpecForecast == Init /\ [][ForecastNext]_vars

\* The deals the claim selects: open, with an expected_close, on or before
\* today + days.
Selected(days) ==
    {d \in DOMAIN deals :
        /\ deals[d].stage \notin {"closed_won", "closed_lost"}
        /\ deals[d].expected_close # NULL
        /\ DateFromIso(deals[d].expected_close) <= now \div TicksPerDay + days}

\* One snapshot per selected deal: the snapshots are the selected deals'
\* titles, values, probabilities and dates, each as often.
OneSnapshotEach(snapshots, selected) ==
    /\ Len(snapshots) = Cardinality(selected)
    /\ \A d \in selected :
          Cardinality({i \in 1..Len(snapshots) :
                          /\ snapshots[i].title = deals[d].title
                          /\ snapshots[i].value = deals[d].value
                          /\ snapshots[i].probability = deals[d].probability
                          /\ snapshots[i].expected_close = deals[d].expected_close})
          = Cardinality({e \in selected :
                          /\ deals[e].title = deals[d].title
                          /\ deals[e].value = deals[d].value
                          /\ deals[e].probability = deals[d].probability
                          /\ deals[e].expected_close = deals[d].expected_close})

\* C9 as stated: forecast_revenue(days) selects exactly the open deals with
\* an expected_close on or before today + days; deal_count is their number,
\* 'deals' has one snapshot per selected deal, and total_expected is the sum
\* of value x probability over them.
C9_ForecastSelectionExact ==
    result.op = "forecast_revenue" =>
        LET sel == Selected(result.value.forecast_days) IN
        /\ result.value.deal_count = Cardinality(sel)
        /\ OneSnapshotEach(result.value.deals, sel)
        /\ result.value.total_expected * WeightedUnit = Sum(WeightedOf, sel)

\* C9 as amended: the same, total_expected being that sum rounded to two
\* decimals.
C9_ForecastSelectionRounded ==
    result.op = "forecast_revenue" =>
        LET sel == Selected(result.value.forecast_days) IN
        /\ result.value.deal_count = Cardinality(sel)
        /\ OneSnapshotEach(result.value.deals, sel)
        /\ Nearest(result.value.total_expected, Sum(WeightedOf, sel), WeightedUnit)

C9_Witness ==
    /\ result.op = "forecast_revenue"
    /\ result.value.deal_count = 1
    /\ result.value.total_expected * WeightedUnit # Sum(WeightedOf, Selected(result.value.forecast_days))
    /\ \E d \in DOMAIN deals :
          /\ deals[d].stage = "lead"
          /\ deals[d].expected_close # NULL
          /\ DateFromIso(deals[d].expected_close) < now \div TicksPerDay
    /\ \E d \in DOMAIN deals :
          /\ deals[d].stage = "lead"
          /\ deals[d].expected_close # NULL
          /\ DateFromIso(deals[d].expected_close) >
                now \div TicksPerDay + result.value.forecast_days
\* The integer q with m*q <= x < m*(q+1).
FloorDiv(x, m) ==
    LET a == IF x < 0 THEN -x ELSE x
    IN  CHOOSE q \in (-a - 1)..a : m * q <= x /\ x < m * (q + 1)

DaysOut(d) == DateFromIso(deals[d].expected_close) - now \div TicksPerDay

\* floor((expected_close - today in days) / 7) + 1
Bucket(d) == FloorDiv(DaysOut(d), 7) + 1

BucketsRight(value) ==
    LET sel == Selected(value.forecast_days)
        wb == value.weekly_breakdown
        keys == {wb[i][1] : i \in 1..Len(wb)}
    IN  /\ keys = {Bucket(d) : d \in sel}
        /\ \A i, j \in 1..Len(wb) : i < j => wb[i][1] < wb[j][1]
        /\ \A d \in sel :
              /\ (DaysOut(d) >= 0 /\ DaysOut(d) <= 6) => 1 \in keys
              /\ DaysOut(d) < 0 => \E k \in keys : k <= 0 /\ k = Bucket(d)
        /\ \A k \in keys : k <= FloorDiv(value.forecast_days, 7) + 1

\* C10 as stated: each selected deal's weighted value goes to the one bucket
\* floor((expected_close - today) / 7) + 1; deals 0-6 days out land in
\* week_1, past-due deals in a bucket <= 0, none above floor(days / 7) + 1;
\* weekly_breakdown has key week_k exactly when a selected deal maps to k,
\* in ascending k, and its values sum to total_expected.
C10_BucketsSumToTotal ==
    result.op = "forecast_revenue" =>
        LET wb == result.value.weekly_breakdown IN
        /\ BucketsRight(result.value)
        /\ Sum([i \in 1..Len(wb) |-> wb[i][2]], 1..Len(wb)) = result.value.total_expected

\* C10 as amended: the same buckets and keys; the value of week_k is the sum
\* of value x probability over the selected deals that map to k, rounded to
\* two decimals, and total_expected is the sum over all selected deals,
\* rounded to two decimals (so the values sum to total_expected only up to
\* that rounding).
C10_BucketsRounded ==
    result.op = "forecast_revenue" =>
        LET sel == Selected(result.value.forecast_days)
            wb == result.value.weekly_breakdown
        IN  /\ BucketsRight(result.value)
            /\ \A i \in 1..Len(wb) :
                  Nearest(wb[i][2],
                          Sum(WeightedOf, {d \in sel : Bucket(d) = wb[i][1]}),
                          WeightedUnit)
            /\ Nearest(result.value.total_expected, Sum(WeightedOf, sel), WeightedUnit)

C10_Witness ==
    /\ result.op = "forecast_revenue"
    /\ LET wb == result.value.weekly_breakdown IN
       /\ Len(wb) = 2
       /\ wb[1][1] <= 0
       /\ wb[2][1] = 2
       /\ Sum([i \in 1..Len(wb) |-> wb[i][2]], 1..Len(wb)) # result.value.total_expected
\* ------------------------------------------------------------ follow-up
\* Two contacts, their deals and interactions, over a few ticks.
FollowUpContacts == {1, 2}
FollowUpDeals == {1, 2}

FollowUpAddContact ==
    \E id \in FreshId(contacts, FollowUpContacts) :
    \E lc \in {NULL, <<Start - TicksPerDay>>} :
        AddContact(Contact(id, "Alice", EmailNames[id], lc))

FollowUpLogInteraction ==
    \E c \in DOMAIN contacts :
        LogInteraction(c, "email", "Just followed up", NoId, "")

FollowUpAddDeal ==
    \E id \in FreshId(deals, FollowUpDeals) :
    \E c \in FollowUpContacts :
    \E sp \in {<<"lead", 5>>, <<"closed_won", 100>>} :
        AddDeal(Deal(id, c, 80, sp[1], sp[2], NULL))

FollowUpAdvanceDealStage ==
    \E d \in DOMAIN deals : AdvanceDealStage(d, "closed_lost")

OverdueDays == {0, 1}

FollowUpStep == \E n \in OverdueDays : GetFollowUpQueue(n)

FollowUpNext ==
    \/ Tick
    \/ FollowUpAddContact
    \/ FollowUpLogInteraction
    \/ FollowUpAddDeal
    \/ FollowUpAdvanceDealStage
    \/ FollowUpStep

SpecFollowUp == Init /\ [][FollowUpNext]_vars

OpenDealsOf(c) ==
    {d \in DOMAIN deals :
        deals[d].contact_id = c /\ deals[d].stage \notin {"closed_won", "closed_lost"}}

\* The contacts the claim puts in the queue: an open deal, and a last_contact
\* absent or strictly earlier than now - days_overdue days.
Due(days_overdue) ==
    {c \in DOMAIN contacts :
        /\ OpenDealsOf(c) # {}
        /\ \/ contacts[c].last_contact = NULL
           \/ DateTimeFromIso(contacts[c].last_contact) < now - days_overdue * TicksPerDay}

OneEntryEach(queue, due) ==
    /\ \A c \in due : Cardinality({i \in 1..Len(queue) : queue[i].contact_id = c}) = 1
    /\ \A i \in 1..Len(queue) : queue[i].contact_id \in due

RoundTripTags ==
    { <<>>,
      << <<"v">>, <<"i", "p">> >>,
      << <<"a", ",", "b">> >> }

RoundTripEmails == ContactEmails \cup {"nobody@x"}

RoundTripAddContact ==
    \E id \in FreshId(contacts, ContactIds) \cup DOMAIN contacts :
    \E email \in ContactEmails :
    \E tags \in RoundTripTags :
    \E lc \in {NULL, <<Start - 1>>} :
        AddContact([Contact(id, "Alice", email, lc) EXCEPT
                       !.tags = tags, !.phone = "555-1234", !.company = "Acme"])

RoundTripGetContact == \E id \in ContactIds : GetContact(id)

RoundTripFindContactByEmail == \E email \in RoundTripEmails : FindContactByEmail(email)

RoundTripUpdateContact ==
    \E id \in ContactIds : UpdateContact(id, [name |-> "Bob"])

RoundTripLogInteraction ==
    \E id \in ContactIds : LogInteraction(id, "call", "Discussed pricing", NoId, "")

RoundTripNext ==
    \/ Tick
    \/ RoundTripAddContact
    \/ RoundTripGetContact
    \/ RoundTripFindContactByEmail
    \/ RoundTripUpdateContact
    \/ RoundTripLogInteraction

SpecRoundTrip == Init /\ [][RoundTripNext]_vars

\* C11: for every contact accepted by add_contact and not since touched by
\* update_contact or log_interaction, get_contact(id) and
\* find_contact_by_email(email) each return a contact whose every field
\* equals what was inserted, the tags list included; a lookup by an id or an
\* email that matches nothing returns None and raises nothing.
C11_ContactRoundTrip ==
    [][/\ \A id \in ContactIds :
            GetContact(id) =>
                /\ id \in DOMAIN inserted => result'.value = <<inserted[id]>>
                /\ id \notin DOMAIN contacts =>
                       result'.raised = "" /\ result'.value = <<>>
       /\ \A email \in RoundTripEmails :
            FindContactByEmail(email) =>
                /\ \A id \in DOMAIN inserted :
                       inserted[id].email = email => result'.value = <<inserted[id]>>
                /\ (\A k \in DOMAIN contacts : contacts[k].email # email) =>
                       result'.raised = "" /\ result'.value = <<>>]_vars
====
